---- MODULE Spec2Model ----
(***************************************************************************)
(* Model of the WAF regex platform's pattern analysis and auto-fix engine: *)
(* EnterpriseRegexAnalyzer (src/src/core/analyzer.py) and                  *)
(* EnhancedAutoFixRewriter (src/src/core/autofix.py), driven through the   *)
(* protocol analyze -> fix -> re-analyze (Spec, SpecScore, SpecTier), by   *)
(* concurrent callers of the shared instances (SpecCalls), through the     *)
(* benchmark harness (SpecBenchmark) and through the batch endpoint of     *)
(* src/src/main.py (SpecBatch).                                            *)
(*                                                                         *)
(* A pattern is a sequence of one-character strings.                       *)
(***************************************************************************)
EXTENDS Integers, Sequences, FiniteSets, TLC

VARIABLES
    pattern,             \* the pattern the caller works on
    hostPossessive,      \* the host's re module knows possessive quantifiers
    analysis,            \* what analyze_pattern(pattern) returned, None before the call
    requested_type,      \* the vulnerability_type passed to generate_fix, None before
    fix,                 \* what generate_fix returned or raised, None before the call
    reanalysis,          \* what analyze_pattern returned for the fixed pattern
    baseline,            \* the analysis of the pattern before a token was appended
    analyzer,            \* the shared EnterpriseRegexAnalyzer instance (its fields)
    thread,              \* per thread, the frame of the call it is in
    returned,            \* per pattern, the Analysis records analyze has returned for it
    test_strings,        \* the test strings passed to benchmark_pattern
    benchmark,           \* what benchmark_pattern returned or raised, None before the call
    request,             \* the patterns of the batch request
    failing,             \* the items of the batch whose analysis ends in an exception
    response,            \* the response of the batch endpoint, None before the call
    estimate,            \* the latest _estimate_wcu call: score, length and result
    earlier,             \* the _estimate_wcu call before a score or length was raised
    refix,               \* what generate_fix returned for the fixed pattern
    auth_manager,        \* the EnterpriseAuthManager instance: users and tokens
    rate_limiter,        \* the RateLimiter instance: requests
    hourly_limit,        \* the scans_per_hour limit the callers pass
    now,                 \* datetime.now(), in ticks
    call,                \* the latest auth or rate limiter call, with the state before it
    accepted             \* per key, the times of the calls is_rate_limited accepted

\* the variables of the protocol analyze -> fix -> re-analyze
protocol == <<pattern, analysis, requested_type, fix, reanalysis, baseline>>

\* the variables of the shared analyzer and its concurrent callers
calls == <<analyzer, thread, returned>>

\* the variables of the benchmark harness and of the batch endpoint
harness == <<test_strings, benchmark, request, failing, response>>

\* the variables of the cost estimator, the fix loop, the auth manager and the
\* rate limiter
platform == <<estimate, earlier, refix, auth_manager, rate_limiter, hourly_limit, now,
              call, accepted>>

vars == <<hostPossessive, protocol, calls, harness, platform>>

(***************************************************************************)
(* Bounds of the model.                                                    *)
(***************************************************************************)
MaxLen == 3
MaxSuffix == 1
MaxRep == 10
MaxThreads == 2
MaxTests == 2
MaxBatch == 2

None == [none |-> TRUE]

\* an operation that ended with re.error
Raised == [error |-> "re.error"]

(***************************************************************************)
(* Generic helpers on patterns.                                            *)
(***************************************************************************)
Min(a, b) == IF a <= b THEN a ELSE b

Range(s) == {s[i] : i \in 1..Len(s)}

\* str.count(c) for a single character c
Count(p, c) == Cardinality({i \in 1..Len(p) : p[i] = c})

\* str.count("(?"): occurrences of the two-character substring (they cannot overlap)
CountOpenQ(p) == Cardinality({i \in 1..(Len(p) - 1) : p[i] = "(" /\ p[i + 1] = "?"})

RECURSIVE Rep(_, _)
Rep(c, n) == IF n = 0 THEN <<>> ELSE <<c>> \o Rep(c, n - 1)

RECURSIVE Strings(_, _)
Strings(S, n) ==
    IF n = 0 THEN {<<>>}
    ELSE LET shorter == Strings(S, n - 1)
         IN shorter \cup {Append(s, c) : s \in {t \in shorter : Len(t) = n - 1}, c \in S}

(***************************************************************************)
(* re.compile: the host regex parser (Python's sre_parse), as far as the   *)
(* characters of the model's patterns and of the source's regex literals   *)
(* exercise it.  possessive is TRUE on a host whose parser knows           *)
(* possessive quantifiers and atomic groups (Python 3.11 and later).       *)
(* Not covered, because no pattern of the model has them: inline flags,    *)
(* named groups, lookbehind, conditional groups, ranges in character sets  *)
(* and backslash-digit escapes.                                            *)
(***************************************************************************)
DIGITS == {"0", "1", "2", "3", "4", "5", "6", "7", "8", "9"}
AtEscapes == {"b", "B", "A", "Z"}
ClassEscapes == {"d", "D", "s", "S", "w", "W", "a", "f", "n", "r", "t", "v"}
LETTERS == {"a", "b", "c", "d", "e", "f", "g", "h", "i", "j", "k", "l", "m",
            "n", "o", "p", "q", "r", "s", "t", "u", "v", "w", "x", "y", "z",
            "A", "B", "C", "D", "E", "F", "G", "H", "I", "J", "K", "L", "M",
            "N", "O", "P", "Q", "R", "S", "T", "U", "V", "W", "X", "Y", "Z"}

\* index just after the "]" closing the character set opened at p[i], 0 if unterminated
RECURSIVE ClassScan(_, _, _)
ClassScan(p, j, first) ==
    IF j > Len(p) THEN 0
    ELSE IF p[j] = "]" /\ ~first THEN j + 1
    ELSE IF p[j] = "\\" THEN (IF j + 1 > Len(p) THEN 0 ELSE ClassScan(p, j + 2, FALSE))
    ELSE ClassScan(p, j + 1, FALSE)

ClassEnd(p, i) ==
    IF i + 1 <= Len(p) /\ p[i + 1] = "^" THEN ClassScan(p, i + 2, TRUE)
    ELSE ClassScan(p, i + 1, TRUE)

RECURSIVE SkipDigits(_, _)
SkipDigits(p, j) == IF j <= Len(p) /\ p[j] \in DIGITS THEN SkipDigits(p, j + 1) ELSE j

DigitValue(d) == CHOOSE n \in 0..9 : d = ToString(n)

RECURSIVE Number(_, _, _)
Number(p, from, to) ==
    IF from >= to THEN 0 ELSE Number(p, from, to - 1) * 10 + DigitValue(p[to - 1])

\* the "{" at p[i]: a counted repetition {m}, {m,}, {,n}, {m,n} or a literal "{"
Brace(p, i) ==
    IF i + 1 <= Len(p) /\ p[i + 1] = "}" THEN [kind |-> "literal", next |-> i + 1]
    ELSE LET lo == SkipDigits(p, i + 1)
             comma == lo <= Len(p) /\ p[lo] = ","
             hi == IF comma THEN SkipDigits(p, lo + 1) ELSE lo
         IN IF hi <= Len(p) /\ p[hi] = "}"
            THEN IF comma /\ lo > i + 1 /\ hi > lo + 1
                     /\ Number(p, lo + 1, hi) < Number(p, i + 1, lo)
                 THEN [kind |-> "error", next |-> hi + 1]
                 ELSE [kind |-> "repeat", next |-> hi + 1]
            ELSE [kind |-> "literal", next |-> i + 1]

\* prev is the last item of the current subpattern: none, at, atom or repeat
RECURSIVE Parse(_, _, _, _, _)
Parse(p, i, depth, prev, possessive) ==
    IF i > Len(p) THEN depth = 0
    ELSE LET c == p[i]
             n == Len(p)
         IN
         IF c = "\\" THEN
             IF i + 1 > n THEN FALSE
             ELSE IF p[i + 1] \in AtEscapes THEN Parse(p, i + 2, depth, "at", possessive)
             ELSE IF p[i + 1] \in ClassEscapes \/ p[i + 1] \notin (LETTERS \cup DIGITS)
                  THEN Parse(p, i + 2, depth, "atom", possessive)
             ELSE FALSE
         ELSE IF c = "[" THEN
             LET j == ClassEnd(p, i)
             IN IF j = 0 THEN FALSE ELSE Parse(p, j, depth, "atom", possessive)
         ELSE IF c = "(" THEN
             IF i + 1 <= n /\ p[i + 1] = "?" THEN
                 IF i + 2 > n THEN FALSE
                 ELSE IF p[i + 2] \in {":", "=", "!"} \/ (p[i + 2] = ">" /\ possessive)
                      THEN Parse(p, i + 3, depth + 1, "none", possessive)
                 ELSE FALSE
             ELSE Parse(p, i + 1, depth + 1, "none", possessive)
         ELSE IF c = ")" THEN
             IF depth = 0 THEN FALSE ELSE Parse(p, i + 1, depth - 1, "atom", possessive)
         ELSE IF c = "|" THEN Parse(p, i + 1, depth, "none", possessive)
         ELSE IF c \in {"*", "+", "?", "{"} THEN
             LET b == IF c = "{" THEN Brace(p, i) ELSE [kind |-> "repeat", next |-> i + 1]
                 j == b.next
                 k == IF j <= n /\ (p[j] = "?" \/ (p[j] = "+" /\ possessive)) THEN j + 1 ELSE j
             IN IF b.kind = "literal" THEN Parse(p, j, depth, "atom", possessive)
                ELSE IF prev \in {"none", "at", "repeat"} THEN FALSE
                ELSE IF b.kind = "error" THEN FALSE
                ELSE Parse(p, k, depth, "repeat", possessive)
         ELSE IF c \in {"^", "$"} THEN Parse(p, i + 1, depth, "at", possessive)
         ELSE Parse(p, i + 1, depth, "atom", possessive)

\* re.compile(p) succeeds
Compiles(p, possessive) == Parse(p, 1, 0, "none", possessive)

\* number of capturing groups of a regex: unescaped "(" outside character sets, not "(?"
RECURSIVE CaptureGroups(_, _)
CaptureGroups(p, i) ==
    IF i > Len(p) THEN 0
    ELSE IF p[i] = "\\" THEN CaptureGroups(p, i + 2)
    ELSE IF p[i] = "[" THEN (IF ClassEnd(p, i) = 0 THEN 0 ELSE CaptureGroups(p, ClassEnd(p, i)))
    ELSE IF p[i] = "(" THEN
        (IF i + 1 <= Len(p) /\ p[i + 1] = "?" THEN 0 ELSE 1) + CaptureGroups(p, i + 1)
    ELSE CaptureGroups(p, i + 1)

(***************************************************************************)
(* EnterpriseRegexAnalyzer.__init__: the rule table vulnerability_patterns.*)
(* Each probe is the regex of the source, applied with re.search to the    *)
(* raw pattern text.                                                       *)
(***************************************************************************)
\* r'\([^)]*[\+|\*][^)]*\)[\+|\*]'
NestedQuantifiersRegex ==
    << "\\", "(", "[", "^", ")", "]", "*", "[", "\\", "+", "|", "\\", "*", "]",
       "[", "^", ")", "]", "*", "\\", ")", "[", "\\", "+", "|", "\\", "*", "]" >>
\* r'\([^)]*\)\\{[^}]*,\\}[^}]*\\?'
ExponentialBacktrackingRegex ==
    << "\\", "(", "[", "^", ")", "]", "*", "\\", ")", "\\", "\\", "{", "[", "^", "}", "]", "*",
       ",", "\\", "\\", "}", "[", "^", "}", "]", "*", "\\", "\\", "?" >>
\* r'^.*\*.*\*.*$'
MultipleWildcardsRegex == << "^", ".", "*", "\\", "*", ".", "*", "\\", "*", ".", "*", "$" >>
\* r'\|.*\|.*\|'
MultipleAlternationsRegex == << "\\", "|", ".", "*", "\\", "|", ".", "*", "\\", "|" >>
\* r'\\.[*+]'
GreedyDotRegex == << "\\", "\\", ".", "[", "*", "+", "]" >>
\* r'\\s[*+]'
GreedyWhitespaceRegex == << "\\", "\\", "s", "[", "*", "+", "]" >>

\* the members of the character set [\+|\*]
QuantChars == {"+", "|", "*"}

\* r'\([^)]*[\+|\*][^)]*\)[\+|\*]'
NestedQuantifiersProbe(p) ==
    \E i \in 1..Len(p), j \in 1..Len(p), k \in 1..(Len(p) - 1) :
        /\ i < j /\ j < k
        /\ p[i] = "("
        /\ p[j] \in QuantChars
        /\ \A m \in (i + 1)..(k - 1) : p[m] # ")"
        /\ p[k] = ")"
        /\ p[k + 1] \in QuantChars

\* r'\([^)]*\)\\{[^}]*,\\}[^}]*\\?'
ExponentialBacktrackingProbe(p) ==
    \E i \in 1..Len(p), k \in 1..Len(p), m \in 1..(Len(p) - 2) :
        /\ i < k /\ k + 3 <= m
        /\ p[i] = "("
        /\ \A x \in (i + 1)..(k - 1) : p[x] # ")"
        /\ p[k] = ")"
        /\ p[k + 1] = "\\" /\ p[k + 2] = "{"
        /\ \A x \in (k + 3)..(m - 1) : p[x] # "}"
        /\ p[m] = "," /\ p[m + 1] = "\\" /\ p[m + 2] = "}"

\* r'^.*\*.*\*.*$'
MultipleWildcardsProbe(p) == Count(p, "*") >= 2

\* r'\|.*\|.*\|'
MultipleAlternationsProbe(p) == Count(p, "|") >= 3

\* r'\\.[*+]'
GreedyDotProbe(p) ==
    \E i \in 1..(Len(p) - 2) : p[i] = "\\" /\ p[i + 2] \in {"*", "+"}

\* r'\\s[*+]'
GreedyWhitespaceProbe(p) ==
    \E i \in 1..(Len(p) - 2) : p[i] = "\\" /\ p[i + 1] = "s" /\ p[i + 2] \in {"*", "+"}

\* the descriptions, in the iteration order of the dict: "redos" then "performance"
vulnerability_patterns ==
    << "Nested quantifiers", "Exponential backtracking", "Multiple wildcards",
       "Multiple alternations", "Greedy dot matches", "Greedy whitespace" >>

RuleRegex(description) ==
    CASE description = "Nested quantifiers" -> NestedQuantifiersRegex
      [] description = "Exponential backtracking" -> ExponentialBacktrackingRegex
      [] description = "Multiple wildcards" -> MultipleWildcardsRegex
      [] description = "Multiple alternations" -> MultipleAlternationsRegex
      [] description = "Greedy dot matches" -> GreedyDotRegex
      [] description = "Greedy whitespace" -> GreedyWhitespaceRegex

\* whether the rule's regex finds a match somewhere in the raw pattern text
RuleMatches(description, p) ==
    CASE description = "Nested quantifiers" -> NestedQuantifiersProbe(p)
      [] description = "Exponential backtracking" -> ExponentialBacktrackingProbe(p)
      [] description = "Multiple wildcards" -> MultipleWildcardsProbe(p)
      [] description = "Multiple alternations" -> MultipleAlternationsProbe(p)
      [] description = "Greedy dot matches" -> GreedyDotProbe(p)
      [] description = "Greedy whitespace" -> GreedyWhitespaceProbe(p)

\* the regex literals of the analyzer; re.search and re.findall compile them on use
AnalyzerRegexes ==
    { NestedQuantifiersRegex, ExponentialBacktrackingRegex, MultipleWildcardsRegex,
      MultipleAlternationsRegex, GreedyDotRegex, GreedyWhitespaceRegex }

RegexCompiles == [r \in AnalyzerRegexes |-> [h \in BOOLEAN |-> Compiles(r, h)]]

\* re.search(pattern_re, pattern): raises when pattern_re does not compile
re_search(description, p, possessive) ==
    IF ~RegexCompiles[RuleRegex(description)][possessive] THEN "raised"
    ELSE IF RuleMatches(description, p) THEN "match"
    ELSE "no match"

(***************************************************************************)
(* _analyze_security: every rule of the table is tried in order and every  *)
(* match appends its description; the level is set by the number of        *)
(* matches.                                                                *)
(***************************************************************************)
\* the loop over the rules; a re.search that raises ends it
RECURSIVE CollectVulnerabilities(_, _, _, _)
CollectVulnerabilities(rules, p, possessive, vulnerabilities) ==
    IF rules = <<>> THEN [raised |-> FALSE, value |-> vulnerabilities]
    ELSE LET found == re_search(Head(rules), p, possessive)
         IN IF found = "raised" THEN [raised |-> TRUE, value |-> vulnerabilities]
            ELSE CollectVulnerabilities(Tail(rules), p, possessive,
                     IF found = "match"
                     THEN Append(vulnerabilities, Head(rules))
                     ELSE vulnerabilities)

\* SecurityLevelOf with the last threshold off by one: one match reports LOW
SecurityLevelOf_OffByOne(vulnerabilities) ==
    IF Len(vulnerabilities) >= 3 THEN "CRITICAL"
    ELSE IF Len(vulnerabilities) >= 2 THEN "HIGH"
    ELSE IF Len(vulnerabilities) > 1 THEN "MEDIUM"
    ELSE "LOW"

SecurityLevelOf(vulnerabilities) ==
    IF Len(vulnerabilities) >= 3 THEN "CRITICAL"
    ELSE IF Len(vulnerabilities) >= 2 THEN "HIGH"
    ELSE IF Len(vulnerabilities) >= 1 THEN "MEDIUM"
    ELSE "LOW"

\* _analyze_security over a given rule table
analyze_security_with(rules, p, possessive) ==
    LET collected == CollectVulnerabilities(rules, p, possessive, <<>>)
    IN IF collected.raised THEN Raised
       ELSE [security_level |-> SecurityLevelOf(collected.value),
             vulnerability_types |-> collected.value]

_analyze_security(p, possessive) ==
    analyze_security_with(vulnerability_patterns, p, possessive)

(***************************************************************************)
(* _analyze_performance: the complexity score and the performance level.   *)
(***************************************************************************)
\* r'[\+|\*|\?|\\{]'
QuantifierRegex ==
    << "[", "\\", "+", "|", "\\", "*", "|", "\\", "?", "|", "\\", "\\", "{", "]" >>

QuantifierRegexCompiles == [h \in BOOLEAN |-> Compiles(QuantifierRegex, h)]

\* the regex is one character set, whose members are + | * ? \ {
QuantifierSet == {"+", "|", "*", "?", "\\", "{"}

LengthDivisor == 10
LengthCap == 10
QuantifierWeight == 2
QuantifierCap == 20
AlternationWeight == 3
AlternationCap == 30
GroupWeight == 2
GroupCap == 20
PoorThreshold == 60
FairThreshold == 40
GoodThreshold == 20

\* complexity_score with the operands of the group count exchanged
complexity_score_GroupsSwapped(p) ==
    LET quantifiers == Cardinality({i \in 1..Len(p) : p[i] \in QuantifierSet})
        alternations == Count(p, "|")
        groups == CountOpenQ(p) - Count(p, "(")
    IN Min(Len(p) \div LengthDivisor, LengthCap)
       + Min(quantifiers * QuantifierWeight, QuantifierCap)
       + Min(alternations * AlternationWeight, AlternationCap)
       + Min(groups * GroupWeight, GroupCap)

complexity_score(p) ==
    LET quantifiers == Cardinality({i \in 1..Len(p) : p[i] \in QuantifierSet})
        alternations == Count(p, "|")
        groups == Count(p, "(") - CountOpenQ(p)
    IN Min(Len(p) \div LengthDivisor, LengthCap)
       + Min(quantifiers * QuantifierWeight, QuantifierCap)
       + Min(alternations * AlternationWeight, AlternationCap)
       + Min(groups * GroupWeight, GroupCap)

\* PerformanceLevelOf with the FAIR and GOOD results exchanged
PerformanceLevelOf_FairGoodSwapped(score) ==
    IF score >= PoorThreshold THEN "POOR"
    ELSE IF score >= FairThreshold THEN "GOOD"
    ELSE IF score >= GoodThreshold THEN "FAIR"
    ELSE "EXCELLENT"

PerformanceLevelOf(score) ==
    IF score >= PoorThreshold THEN "POOR"
    ELSE IF score >= FairThreshold THEN "FAIR"
    ELSE IF score >= GoodThreshold THEN "GOOD"
    ELSE "EXCELLENT"

_analyze_performance(p, possessive) ==
    IF ~QuantifierRegexCompiles[possessive] THEN Raised
    ELSE [performance_level |-> PerformanceLevelOf(complexity_score(p)),
          complexity_score |-> complexity_score(p)]

(***************************************************************************)
(* _estimate_wcu, in hundredths: round(1.0 * (1 + score/100) *             *)
(* (1 + len/1000), 2) * 100.  The float product is rounded to the nearest  *)
(* hundredth; when the exact product lies half-way between two hundredths  *)
(* the binary64 value of the product decides, and WcuTiesAbove lists the   *)
(* <<score, len>> pairs with len <= 130 whose float lies above the half.   *)
(***************************************************************************)
WcuTiesAbove ==
    { <<5, 100>>, <<8, 125>>, <<10, 50>>, <<24, 125>>, <<25, 12>>, <<25, 28>>,
      <<25, 44>>, <<25, 60>>, <<25, 76>>, <<25, 92>>, <<25, 100>>, <<25, 108>>,
      <<25, 116>>, <<25, 124>>, <<30, 50>>, <<32, 125>>, <<35, 100>>, <<48, 125>>,
      <<50, 10>>, <<50, 50>>, <<50, 90>>, <<50, 110>>, <<55, 100>>, <<56, 125>>,
      <<64, 125>>, <<72, 125>>, <<75, 20>>, <<75, 100>>, <<80, 75>> }

_estimate_wcu_Truncated(p, score) == ((100 + score) * (1000 + Len(p))) \div 1000

_estimate_wcu(p, score) ==
    LET num == (100 + score) * (1000 + Len(p))
    IN IF num % 1000 = 500
       THEN (IF <<score, Len(p)>> \in WcuTiesAbove THEN num \div 1000 + 1 ELSE num \div 1000)
       ELSE (num + 500) \div 1000

(***************************************************************************)
(* _check_compatibility: one re.compile of the host per listed engine.     *)
(***************************************************************************)
engines == << "pcre", "re2", "python", "javascript", "java" >>

RECURSIVE CompatibilityLoop(_, _, _, _)
CompatibilityLoop(es, p, possessive, compatibility) ==
    IF es = <<>> THEN compatibility
    ELSE CompatibilityLoop(Tail(es), p, possessive,
             [e \in (DOMAIN compatibility) \cup {Head(es)} |->
                 IF e = Head(es) THEN Compiles(p, possessive) ELSE compatibility[e]])

\* _check_compatibility whose except branch records True as well
_check_compatibility_ExceptTrue(p, possessive) ==
    [e \in Range(engines) |-> TRUE]

\* _check_compatibility whose except branch records nothing
_check_compatibility_ExceptPass(p, possessive) ==
    IF Compiles(p, possessive) THEN [e \in Range(engines) |-> TRUE] ELSE [e \in {} |-> FALSE]

_check_compatibility(p, possessive) ==
    CompatibilityLoop(engines, p, possessive, [e \in {} |-> FALSE])

(***************************************************************************)
(* _generate_optimizations                                                 *)
(***************************************************************************)
LongPatternLimit == 100
HighAlternationLimit == 5

_generate_optimizations(p, vulnerabilities) ==
    LET optimizations ==
            (IF "Nested quantifiers" \in Range(vulnerabilities)
             THEN << "Convert nested quantifiers to atomic groups" >> ELSE <<>>)
         \o (IF "Multiple alternations" \in Range(vulnerabilities)
             THEN << "Consider using character classes instead of alternations" >> ELSE <<>>)
         \o (IF Len(p) > LongPatternLimit
             THEN << "Pattern is very long - consider breaking into multiple rules" >> ELSE <<>>)
         \o (IF Count(p, "|") > HighAlternationLimit
             THEN << "High alternation count - optimize with character classes" >> ELSE <<>>)
    IN IF optimizations # <<>> THEN optimizations ELSE << "Pattern is well optimized" >>

(***************************************************************************)
(* analyze_pattern                                                         *)
(***************************************************************************)
analyze_pattern(p, possessive) ==
    LET security == _analyze_security(p, possessive)
        performance == _analyze_performance(p, possessive)
    IN IF security = Raised \/ performance = Raised THEN Raised
       ELSE [pattern |-> p,
             security_level |-> security.security_level,
             performance_level |-> performance.performance_level,
             complexity_score |-> performance.complexity_score,
             vulnerability_types |-> security.vulnerability_types,
             optimization_suggestions |->
                 _generate_optimizations(p, security.vulnerability_types),
             estimated_wcu |-> _estimate_wcu(p, performance.complexity_score),
             compatibility |-> _check_compatibility(p, possessive)]

(***************************************************************************)
(* EnhancedAutoFixRewriter.generate_fix.  re.sub compiles its regex and    *)
(* its replacement template before it looks at the subject string, so a    *)
(* regex that does not compile, or a template that refers to a group the   *)
(* regex does not have, raises re.error for every subject.                 *)
(***************************************************************************)
\* r'\(([^)]*\+\)\+'
NestedPlusRegex == << "\\", "(", "(", "[", "^", ")", "]", "*", "\\", "+", "\\", ")", "\\", "+" >>
\* r'\(([^)]*\*\)\*'
NestedStarRegex == << "\\", "(", "(", "[", "^", ")", "]", "*", "\\", "*", "\\", ")", "\\", "*" >>
\* r'\(\(\\.\*\)\)\*'
ExponentialStarRegex ==
    << "\\", "(", "\\", "(", "\\", "\\", ".", "\\", "*", "\\", ")", "\\", ")", "\\", "*" >>
\* r'\(\(\\.\+\)\)\+'
ExponentialPlusRegex ==
    << "\\", "(", "\\", "(", "\\", "\\", ".", "\\", "+", "\\", ")", "\\", ")", "\\", "+" >>
\* r'(\+)(?!\+)'
PossessivePlusRegex == << "(", "\\", "+", ")", "(", "?", "!", "\\", "+", ")" >>
\* r'(\*)(?!\+)'
PossessiveStarRegex == << "(", "\\", "*", ")", "(", "?", "!", "\\", "+", ")" >>

\* r'(?>\1)+'
AtomicPlusTemplate == << "(", "?", ">", "\\", "1", ")", "+" >>
\* r'(?>\1)*'
AtomicStarTemplate == << "(", "?", ">", "\\", "1", ")", "*" >>
\* r'(?>\1+)*'
AtomicInnerPlusStarTemplate == << "(", "?", ">", "\\", "1", "+", ")", "*" >>
\* r'(?>\1+)+'
AtomicInnerPlusPlusTemplate == << "(", "?", ">", "\\", "1", "+", ")", "+" >>
\* r'\1+'
PossessiveTemplate == << "\\", "1", "+" >>

\* the highest group number a replacement template refers to
RECURSIVE MaxGroupRef(_, _)
MaxGroupRef(template, i) ==
    IF i >= Len(template) THEN 0
    ELSE IF template[i] = "\\"
         THEN LET rest == MaxGroupRef(template, i + 2)
                  ref == IF template[i + 1] \in DIGITS THEN DigitValue(template[i + 1]) ELSE 0
              IN IF ref > rest THEN ref ELSE rest
         ELSE MaxGroupRef(template, i + 1)

\* AppendPlusAfter without the lookahead (?!\+): every q gets a "+"
RECURSIVE AppendPlusAfter_NoLookahead(_, _, _)
AppendPlusAfter_NoLookahead(q, s, i) ==
    IF i > Len(s) THEN <<>>
    ELSE IF s[i] = q
         THEN << q, "+" >> \o AppendPlusAfter_NoLookahead(q, s, i + 1)
         ELSE << s[i] >> \o AppendPlusAfter_NoLookahead(q, s, i + 1)

\* re.sub of a one-character quantifier q not followed by "+", replaced by q and "+"
RECURSIVE AppendPlusAfter(_, _, _)
AppendPlusAfter(q, s, i) ==
    IF i > Len(s) THEN <<>>
    ELSE IF s[i] = q /\ ~(i + 1 <= Len(s) /\ s[i + 1] = "+")
         THEN << q, "+" >> \o AppendPlusAfter(q, s, i + 1)
         ELSE << s[i] >> \o AppendPlusAfter(q, s, i + 1)

\* the effect of re.sub for the regexes of the source that compile with their template
Substitute(regex, template, s) ==
    IF regex = PossessivePlusRegex THEN AppendPlusAfter("+", s, 1)
    ELSE IF regex = PossessiveStarRegex THEN AppendPlusAfter("*", s, 1)
    ELSE s

re_sub(regex, template, s, possessive) ==
    IF ~Compiles(regex, possessive) THEN [raised |-> TRUE, value |-> s]
    ELSE IF MaxGroupRef(template, 1) > CaptureGroups(regex, 1) THEN [raised |-> TRUE, value |-> s]
    ELSE [raised |-> FALSE, value |-> Substitute(regex, template, s)]

\* a further re.sub on the result of an earlier one; an earlier re.error propagates
ThenSub(r, regex, template, possessive) ==
    IF r.raised THEN r ELSE re_sub(regex, template, r.value, possessive)

\* the rewrite of the groups, keyed by the vulnerability type (lines 8-13)
RewriteGroups(p, vulnerability_type, possessive) ==
    LET start == [raised |-> FALSE, value |-> p]
    IN IF vulnerability_type = "nested_quantifiers"
       THEN ThenSub(ThenSub(start, NestedPlusRegex, AtomicPlusTemplate, possessive),
                    NestedStarRegex, AtomicStarTemplate, possessive)
       ELSE IF vulnerability_type = "exponential_backtracking"
       THEN ThenSub(ThenSub(start, ExponentialStarRegex, AtomicInnerPlusStarTemplate,
                            possessive),
                    ExponentialPlusRegex, AtomicInnerPlusPlusTemplate, possessive)
       ELSE start

\* the conversion to possessive quantifiers (lines 16-17)
ConvertPossessive(grouped, possessive) ==
    ThenSub(ThenSub(grouped, PossessivePlusRegex, PossessiveTemplate, possessive),
            PossessiveStarRegex, PossessiveTemplate, possessive)

generate_fix(p, vulnerability_type, possessive) ==
    LET grouped == RewriteGroups(p, vulnerability_type, possessive)
        fixed == ConvertPossessive(grouped, possessive)
    IN IF fixed.raised THEN Raised
       ELSE [original_pattern |-> p,
             fixed_pattern |-> fixed.value,
             vulnerability_fixed |-> vulnerability_type,
             optimizations_applied |-> << "atomic_groups", "possessive_quantifiers" >>]

(***************************************************************************)
(* The inputs: every string over Sigma up to MaxLen characters, and the    *)
(* patterns of the tests and scenarios followed by up to MaxSuffix more    *)
(* characters.                                                             *)
(***************************************************************************)
Sigma == {"w", "(", ")", "+", "*", "?", "|", "\\"}

ScenarioPatterns ==
    { << "(", "a", "+", ")", "+" >>,
      << "(", "a", "+", ")", "+", "b" >>,
      << "s", "i", "m", "p", "l", "e" >>,
      << "\\", "w", "+", "@", "\\", "w", "+", "\\", ".", "\\", "w", "+" >>,
      << "(", "a", ")", "{", "2", ",", "}" >>,
      << "(", "a", ")", "\\", "{", "2", ",", "\\", "}" >>,
      << "(", "(", "\\", ".", "*", ")", ")", "*" >>,
      << "a", "*", "b", "*", "\\", "*" >>,
      << "\\", "s", "+", "a", "|", "b", "|", "c", "|", "d" >> }

Patterns ==
    Strings(Sigma, MaxLen)
        \cup {seed \o s : seed \in ScenarioPatterns, s \in Strings(Sigma, MaxSuffix)}

\* the vulnerability_type strings a caller passes to fix: the two the rewriter knows,
\* and two descriptions of the analyzer passed on as they are
FixTypes == {"nested_quantifiers", "exponential_backtracking",
             "Nested quantifiers", "Multiple wildcards"}

(***************************************************************************)
(* The state outside the protocol: the shared analyzer as __init__ leaves  *)
(* it with no call in progress, no benchmark and no batch request made.    *)
(***************************************************************************)
Threads == 1..MaxThreads

\* the patterns the concurrent callers pass
CallPatterns ==
    { << "(", "a", "+", ")", "+" >>, << "\\", "*", "*" >> }

\* the frame of a thread that is in no call
IdleFrame ==
    [pc |-> "idle", pattern |-> <<>>, vulnerability_type |-> "",
     security |-> None, performance |-> None, estimated_wcu |-> 0,
     compatibility |-> None, fixed |-> None, result |-> None]

CallsIdle ==
    /\ analyzer = [vulnerability_patterns |-> vulnerability_patterns]
    /\ thread = [t \in Threads |-> IdleFrame]
    /\ returned = [p \in CallPatterns |-> {}]

HarnessIdle ==
    /\ test_strings = <<>>
    /\ benchmark = None
    /\ request = <<>>
    /\ failing = {}
    /\ response = None

\* _create_default_admin (auth.py lines 39-47); a user_id is a record here
AdminId == [id |-> <<"admin_001">>]

DefaultAdmin ==
    [user_id |-> AdminId, email |-> "admin@company.com", role |-> "SUPER_ADMIN",
     api_limits |-> [scans_per_hour |-> 1000, optimizations_per_day |-> 500],
     is_active |-> TRUE]

\* a dict with no entry
EmptyDict == [k \in {} |-> None]

\* the auth manager and the rate limiter as their __init__ leave them, nothing called
PlatformIdle ==
    /\ estimate = None
    /\ earlier = None
    /\ refix = None
    /\ auth_manager = [users |-> [u \in {AdminId} |-> DefaultAdmin], tokens |-> EmptyDict]
    /\ rate_limiter = [requests |-> EmptyDict]
    /\ hourly_limit = 0
    /\ now = 0
    /\ call = None
    /\ accepted = EmptyDict

ProtocolIdle ==
    /\ pattern = <<>>
    /\ analysis = None
    /\ requested_type = None
    /\ fix = None
    /\ reanalysis = None
    /\ baseline = None

(***************************************************************************)
(* The protocol analyze -> fix -> re-analyze on one pattern.               *)
(***************************************************************************)
Init ==
    /\ pattern \in Patterns
    /\ hostPossessive \in BOOLEAN
    /\ analysis = None
    /\ requested_type = None
    /\ fix = None
    /\ reanalysis = None
    /\ baseline = None
    /\ CallsIdle
    /\ PlatformIdle
    /\ HarnessIdle

\* analyzer.analyze_pattern(pattern)
Analyze ==
    /\ analysis = None
    /\ analysis' = analyze_pattern(pattern, hostPossessive)
    /\ UNCHANGED <<pattern, hostPossessive, requested_type, fix, reanalysis, baseline>>
    /\ UNCHANGED <<calls, harness, platform>>

\* enhanced_fixer.generate_fix(pattern, t), by a caller that holds the analysis
Fix(t) ==
    /\ analysis # None
    /\ fix = None
    /\ requested_type' = t
    /\ fix' = generate_fix(pattern, t, hostPossessive)
    /\ UNCHANGED <<pattern, hostPossessive, analysis, reanalysis, baseline>>
    /\ UNCHANGED <<calls, harness, platform>>

\* analyzer.analyze_pattern(fixed_pattern), once generate_fix has returned
Reanalyze ==
    /\ fix # None
    /\ fix # Raised
    /\ reanalysis = None
    /\ reanalysis' = analyze_pattern(fix.fixed_pattern, hostPossessive)
    /\ UNCHANGED <<pattern, hostPossessive, analysis, requested_type, fix, baseline>>
    /\ UNCHANGED <<calls, harness, platform>>

Next ==
    \/ Analyze
    \/ \E t \in FixTypes : Fix(t)
    \/ Reanalyze

Spec == Init /\ [][Next]_vars

(***************************************************************************)
(* Scoring a pattern and the pattern with one more token appended: the     *)
(* patterns are runs of up to MaxRep equal characters followed by up to    *)
(* MaxSuffix characters, the tokens the quantifier, alternation and group  *)
(* characters.                                                             *)
(***************************************************************************)
ScoreSigma == {"w", "(", "+", "|"}

ScorePatterns ==
    {Rep(c, n) \o s : c \in ScoreSigma, n \in 0..MaxRep, s \in Strings(ScoreSigma, MaxSuffix)}

Tokens == {"+", "*", "?", "{", "|", "("}

InitScore ==
    /\ pattern \in ScorePatterns
    /\ hostPossessive \in BOOLEAN
    /\ analysis = None
    /\ requested_type = None
    /\ fix = None
    /\ reanalysis = None
    /\ baseline = None
    /\ CallsIdle
    /\ PlatformIdle
    /\ HarnessIdle

\* the caller appends one token to the analysed pattern and submits the result
Extend(token) ==
    /\ analysis # None
    /\ baseline = None
    /\ baseline' = analysis
    /\ pattern' = Append(pattern, token)
    /\ analysis' = None
    /\ UNCHANGED <<hostPossessive, requested_type, fix, reanalysis>>
    /\ UNCHANGED <<calls, harness, platform>>

NextScore ==
    \/ Analyze
    \/ \E token \in Tokens : Extend(token)

SpecScore == InitScore /\ [][NextScore]_vars

(***************************************************************************)
(* Concurrent callers of the shared instances (main.py line 48, routes.py  *)
(* line 13): each thread is idle or inside one call of analyze_pattern or  *)
(* generate_fix, which it runs statement by statement on the locals of its *)
(* frame; threads interleave between statements.  The only state the       *)
(* methods reach outside their frame is self.vulnerability_patterns.       *)
(***************************************************************************)
CallFixTypes == {"nested_quantifiers", "Multiple wildcards"}

\* the frame of thread t with the fields of r replaced
Frame(t, r) == [f \in DOMAIN thread[t] |-> IF f \in DOMAIN r THEN r[f] ELSE thread[t][f]]

\* thread t calls analyzer.analyze_pattern(p)
CallAnalyze(t, p) ==
    /\ thread[t].pc = "idle"
    /\ thread' = [thread EXCEPT ![t] = [IdleFrame EXCEPT !.pc = "security", !.pattern = p]]
    /\ UNCHANGED <<hostPossessive, protocol, analyzer, returned, harness, platform>>

\* SecurityStep with the list of findings kept on the instance (self.vulnerabilities,
\* created once) instead of in a local: every call appends to what earlier calls found
SecurityStep_FindingsOnInstance(t) ==
    /\ thread[t].pc = "security"
    /\ LET kept == IF "vulnerabilities" \in DOMAIN analyzer
                   THEN analyzer.vulnerabilities ELSE <<>>
           collected == CollectVulnerabilities(analyzer.vulnerability_patterns,
                                               thread[t].pattern, hostPossessive, kept)
       IN /\ analyzer' = [vulnerability_patterns |-> analyzer.vulnerability_patterns,
                          vulnerabilities |-> collected.value]
          /\ thread' = [thread EXCEPT ![t] =
                 Frame(t, [pc |-> "performance",
                           security |->
                               [security_level |-> SecurityLevelOf(collected.value),
                                vulnerability_types |-> collected.value]])]
    /\ UNCHANGED <<hostPossessive, protocol, returned, harness, platform>>

\* line 50: security_level, vulnerabilities = self._analyze_security(pattern)
SecurityStep(t) ==
    /\ thread[t].pc = "security"
    /\ LET security == analyze_security_with(analyzer.vulnerability_patterns,
                                             thread[t].pattern, hostPossessive)
       IN thread' = [thread EXCEPT ![t] =
              IF security = Raised
              THEN Frame(t, [pc |-> "return", result |-> Raised])
              ELSE Frame(t, [pc |-> "performance", security |-> security])]
    /\ UNCHANGED <<hostPossessive, protocol, analyzer, returned, harness, platform>>

\* line 53: performance_level, complexity_score = self._analyze_performance(pattern)
PerformanceStep(t) ==
    /\ thread[t].pc = "performance"
    /\ LET performance == _analyze_performance(thread[t].pattern, hostPossessive)
       IN thread' = [thread EXCEPT ![t] =
              IF performance = Raised
              THEN Frame(t, [pc |-> "return", result |-> Raised])
              ELSE Frame(t, [pc |-> "wcu", performance |-> performance])]
    /\ UNCHANGED <<hostPossessive, protocol, analyzer, returned, harness, platform>>

\* line 56: estimated_wcu = self._estimate_wcu(pattern, complexity_score)
WcuStep(t) ==
    /\ thread[t].pc = "wcu"
    /\ thread' = [thread EXCEPT ![t] =
           Frame(t, [pc |-> "compatibility",
                     estimated_wcu |->
                         _estimate_wcu(thread[t].pattern,
                                       thread[t].performance.complexity_score)])]
    /\ UNCHANGED <<hostPossessive, protocol, analyzer, returned, harness, platform>>

\* line 59: compatibility = self._check_compatibility(pattern)
CompatibilityStep(t) ==
    /\ thread[t].pc = "compatibility"
    /\ thread' = [thread EXCEPT ![t] =
           Frame(t, [pc |-> "optimizations",
                     compatibility |->
                         _check_compatibility(thread[t].pattern, hostPossessive)])]
    /\ UNCHANGED <<hostPossessive, protocol, analyzer, returned, harness, platform>>

\* lines 62-73: the suggestions, and the PatternAnalysis built from the locals
OptimizationsStep(t) ==
    /\ thread[t].pc = "optimizations"
    /\ LET f == thread[t]
       IN thread' = [thread EXCEPT ![t] =
              Frame(t, [pc |-> "return",
                        result |->
                            [pattern |-> f.pattern,
                             security_level |-> f.security.security_level,
                             performance_level |-> f.performance.performance_level,
                             complexity_score |-> f.performance.complexity_score,
                             vulnerability_types |-> f.security.vulnerability_types,
                             optimization_suggestions |->
                                 _generate_optimizations(f.pattern,
                                                         f.security.vulnerability_types),
                             estimated_wcu |-> f.estimated_wcu,
                             compatibility |-> f.compatibility]])]
    /\ UNCHANGED <<hostPossessive, protocol, analyzer, returned, harness, platform>>

\* thread t calls enhanced_fixer.generate_fix(p, vulnerability_type)
CallFix(t, p, vulnerability_type) ==
    /\ thread[t].pc = "idle"
    /\ thread' = [thread EXCEPT ![t] =
           [IdleFrame EXCEPT !.pc = "groups", !.pattern = p,
                             !.vulnerability_type = vulnerability_type]]
    /\ UNCHANGED <<hostPossessive, protocol, analyzer, returned, harness, platform>>

\* autofix.py lines 6-13
GroupsStep(t) ==
    /\ thread[t].pc = "groups"
    /\ LET grouped == RewriteGroups(thread[t].pattern, thread[t].vulnerability_type,
                                    hostPossessive)
       IN thread' = [thread EXCEPT ![t] =
              IF grouped.raised
              THEN Frame(t, [pc |-> "return", result |-> Raised])
              ELSE Frame(t, [pc |-> "possessive", fixed |-> grouped])]
    /\ UNCHANGED <<hostPossessive, protocol, analyzer, returned, harness, platform>>

\* autofix.py lines 16-24
PossessiveStep(t) ==
    /\ thread[t].pc = "possessive"
    /\ LET fixed == ConvertPossessive(thread[t].fixed, hostPossessive)
       IN thread' = [thread EXCEPT ![t] =
              IF fixed.raised
              THEN Frame(t, [pc |-> "return", result |-> Raised])
              ELSE Frame(t, [pc |-> "return",
                             result |->
                                 [original_pattern |-> thread[t].pattern,
                                  fixed_pattern |-> fixed.value,
                                  vulnerability_fixed |-> thread[t].vulnerability_type,
                                  optimizations_applied |->
                                      << "atomic_groups", "possessive_quantifiers" >>]])]
    /\ UNCHANGED <<hostPossessive, protocol, analyzer, returned, harness, platform>>

\* the call of thread t returns (or raises) to its caller, which keeps what analyze
\* returned for the pattern
Return(t) ==
    /\ thread[t].pc = "return"
    /\ returned' =
           IF thread[t].vulnerability_type = ""
           THEN [returned EXCEPT ![thread[t].pattern] = @ \cup {thread[t].result}]
           ELSE returned
    /\ thread' = [thread EXCEPT ![t] = IdleFrame]
    /\ UNCHANGED <<hostPossessive, protocol, analyzer, harness, platform>>

InitCalls ==
    /\ hostPossessive \in BOOLEAN
    /\ ProtocolIdle
    /\ CallsIdle
    /\ PlatformIdle
    /\ HarnessIdle

NextCalls ==
    \E t \in Threads :
        \/ \E p \in CallPatterns : CallAnalyze(t, p)
        \/ SecurityStep(t)
        \/ PerformanceStep(t)
        \/ WcuStep(t)
        \/ CompatibilityStep(t)
        \/ OptimizationsStep(t)
        \/ \E p \in CallPatterns, vulnerability_type \in CallFixTypes :
               CallFix(t, p, vulnerability_type)
        \/ GroupsStep(t)
        \/ PossessiveStep(t)
        \/ Return(t)

SpecCalls == InitCalls /\ [][NextCalls]_vars

(***************************************************************************)
(* Two patterns analysed one after the other, to compare their scores and  *)
(* tiers: the patterns are runs of alternations, quantifiers, groups and   *)
(* literals that together reach every tier.                                *)
(***************************************************************************)
Runs == {0, MaxRep \div 2, MaxRep}

TierPatterns ==
    {Rep("|", a) \o Rep("+", b) \o Rep("(", c) \o Rep("w", d) :
        a \in Runs, b \in Runs, c \in Runs, d \in {0, LengthDivisor}}

InitTier ==
    /\ pattern \in TierPatterns
    /\ hostPossessive \in BOOLEAN
    /\ analysis = None
    /\ requested_type = None
    /\ fix = None
    /\ reanalysis = None
    /\ baseline = None
    /\ CallsIdle
    /\ PlatformIdle
    /\ HarnessIdle

\* the caller keeps the analysis and submits another pattern
Resubmit(q) ==
    /\ analysis # None
    /\ baseline = None
    /\ baseline' = analysis
    /\ pattern' = q
    /\ analysis' = None
    /\ UNCHANGED <<hostPossessive, requested_type, fix, reanalysis>>
    /\ UNCHANGED <<calls, harness, platform>>

NextTier ==
    \/ Analyze
    \/ \E q \in TierPatterns : Resubmit(q)

SpecTier == InitTier /\ [][NextTier]_vars

(***************************************************************************)
(* benchmark_pattern: the pattern is compiled once, each test string is    *)
(* searched and timed, and the times are aggregated.  The elapsed times    *)
(* are the environment's; they are whole milliseconds here.                *)
(***************************************************************************)
StatisticsError == [error |-> "StatisticsError"]

ZeroDivisionError == [error |-> "ZeroDivisionError"]

Elapsed == {0, 1, 5, 12}

TestStrings == {<< "a" >>, << "a", "a", "a", "!" >>}

RECURSIVE Sum(_)
Sum(times) == IF times = <<>> THEN 0 ELSE Head(times) + Sum(Tail(times))

Max(times) == CHOOSE x \in Range(times) : \A y \in Range(times) : y <= x

Least(times) == CHOOSE x \in Range(times) : \A y \in Range(times) : x <= y

\* the mean computed as sum(times) / len(times)
statistics_mean_SumOverLen(times) ==
    IF times = <<>> THEN ZeroDivisionError
    ELSE [sum |-> Sum(times), n |-> Len(times)]

\* statistics.mean(times): the exact mean, as the fraction sum / n; it raises
\* StatisticsError ("mean requires at least one data point") for no data
statistics_mean(times) ==
    IF times = <<>> THEN StatisticsError
    ELSE [sum |-> Sum(times), n |-> Len(times)]

ExcellentBelowMs == 1
GoodBelowMs == 5
FairBelowMs == 10

\* _rate_performance(avg_time_ms) for the mean sum / n
_rate_performance(mean) ==
    IF mean.sum < ExcellentBelowMs * mean.n THEN "EXCELLENT"
    ELSE IF mean.sum < GoodBelowMs * mean.n THEN "GOOD"
    ELSE IF mean.sum < FairBelowMs * mean.n THEN "FAIR"
    ELSE "POOR"

\* benchmark_pattern(p, strings) when the searches take the given times
benchmark_pattern(p, strings, times, possessive) ==
    IF ~Compiles(p, possessive) THEN Raised
    ELSE LET mean == statistics_mean(times)
         IN IF "error" \in DOMAIN mean THEN mean
            ELSE [average_time_ms |-> mean,
                  max_time_ms |-> Max(times),
                  min_time_ms |-> Least(times),
                  total_tests |-> Len(strings),
                  performance_rating |-> _rate_performance(mean)]

BenchPatterns == Strings(Sigma, MaxSuffix + 1) \cup ScenarioPatterns

RECURSIVE Seqs(_, _)
Seqs(S, n) ==
    IF n = 0 THEN {<<>>}
    ELSE LET shorter == Seqs(S, n - 1)
         IN shorter \cup {Append(s, x) : s \in {t \in shorter : Len(t) = n - 1}, x \in S}

InitBenchmark ==
    /\ hostPossessive \in BOOLEAN
    /\ pattern \in BenchPatterns
    /\ analysis = None
    /\ requested_type = None
    /\ fix = None
    /\ reanalysis = None
    /\ baseline = None
    /\ CallsIdle
    /\ PlatformIdle
    /\ test_strings \in Seqs(TestStrings, MaxTests)
    /\ benchmark = None
    /\ request = <<>>
    /\ failing = {}
    /\ response = None

\* analyzer.benchmark_pattern(pattern, test_strings)
Benchmark(times) ==
    /\ benchmark = None
    /\ benchmark' = benchmark_pattern(pattern, test_strings, times, hostPossessive)
    /\ UNCHANGED <<hostPossessive, protocol, calls, test_strings, request, failing, response, platform>>

NextBenchmark ==
    \E times \in [1..Len(test_strings) -> Elapsed] : Benchmark(times)

SpecBenchmark == InitBenchmark /\ [][NextBenchmark]_vars

(***************************************************************************)
(* The batch endpoint POST /api/v1/analyze (main.py analyze_patterns): the *)
(* patterns of the request are analysed in order inside one try block.     *)
(* No pattern text makes analyze_pattern raise; an analysis that ends in   *)
(* an exception (the case the handler's except branch is written for, such *)
(* as memory exhausted by re.findall on a huge pattern) is the             *)
(* environment's choice, given by the set failing.  The rate limiter's     *)
(* verdict is the environment's too; the timestamp analyzed_at is left     *)
(* out of the response.                                                    *)
(***************************************************************************)
\* SecurityLevel(...).value and PerformanceLevel(...).value
EnumValue(member) ==
    CASE member = "LOW" -> "low" [] member = "MEDIUM" -> "medium"
      [] member = "HIGH" -> "high" [] member = "CRITICAL" -> "critical"
      [] member = "EXCELLENT" -> "excellent" [] member = "GOOD" -> "good"
      [] member = "FAIR" -> "fair" [] member = "POOR" -> "poor"

\* the dict appended to results for one analysis (lines 125-134)
ResultEntry(a) ==
    [pattern |-> a.pattern,
     security_level |-> EnumValue(a.security_level),
     performance_level |-> EnumValue(a.performance_level),
     complexity_score |-> a.complexity_score,
     vulnerabilities |-> a.vulnerability_types,
     optimizations |-> a.optimization_suggestions,
     estimated_wcu |-> a.estimated_wcu,
     compatibility |-> a.compatibility]

\* the analysis of item i of the batch: what analyze_pattern returns, or an exception
ItemAnalysis(patterns, i, raising, possessive) ==
    IF i \in raising THEN Raised ELSE analyze_pattern(patterns[i], possessive)

\* the handler: 429 when rate limited, 500 when any analysis raised, else the results
analyze_patterns(patterns, rate_limited, raising, possessive) ==
    IF rate_limited THEN [status_code |-> 429, detail |-> "Rate limit exceeded"]
    ELSE IF \E i \in 1..Len(patterns) : ItemAnalysis(patterns, i, raising, possessive) = Raised
    THEN [status_code |-> 500, detail |-> "Analysis failed"]
    ELSE [status_code |-> 200,
          success |-> TRUE,
          results |-> [i \in 1..Len(patterns) |->
                          ResultEntry(ItemAnalysis(patterns, i, raising, possessive))]]

BatchPatterns ==
    { << "(", "a", "+", ")", "+" >>, << "s", "i", "m", "p", "l", "e" >>,
      << "*", "*" >>, << "w", "+", "+" >>, << "|", "|", "|" >> }

InitBatch ==
    /\ hostPossessive \in BOOLEAN
    /\ ProtocolIdle
    /\ CallsIdle
    /\ PlatformIdle
    /\ test_strings = <<>>
    /\ benchmark = None
    /\ request \in Seqs(BatchPatterns, MaxBatch)
    /\ failing \in SUBSET (1..Len(request))
    /\ response = None

\* POST /api/v1/analyze with the patterns of request
AnalyzePatterns(rate_limited) ==
    /\ response = None
    /\ response' = analyze_patterns(request, rate_limited, failing, hostPossessive)
    /\ UNCHANGED <<hostPossessive, protocol, calls, test_strings, benchmark, request, failing, platform>>

NextBatch == \E rate_limited \in BOOLEAN : AnalyzePatterns(rate_limited)

SpecBatch == InitBatch /\ [][NextBatch]_vars

(***************************************************************************)
(* Properties.                                                             *)
(***************************************************************************)
Returned(a) == a # None /\ a # Raised

SeverityRank(level) ==
    CASE level = "LOW" -> 0 [] level = "MEDIUM" -> 1 [] level = "HIGH" -> 2 [] level = "CRITICAL" -> 3

\* the analysis reports the pattern as vulnerable exactly when it reports a type
VulnerableIffTyped(a) == (a.security_level # "LOW") <=> (a.vulnerability_types # <<>>)

FirstMatch(p) ==
    IF \E i \in 1..Len(vulnerability_patterns) : RuleMatches(vulnerability_patterns[i], p)
    THEN CHOOSE i \in 1..Len(vulnerability_patterns) :
             /\ RuleMatches(vulnerability_patterns[i], p)
             /\ \A j \in 1..(i - 1) : ~RuleMatches(vulnerability_patterns[j], p)
    ELSE 0

\* C2: the first rule whose probe matches alone determines the reported type and
\* severity: the analysis is the one the rule table cut off after that rule gives,
\* whatever rules match later in the order.
C2_FirstMatchDecides ==
    (Returned(analysis) /\ FirstMatch(pattern) > 0) =>
        LET first == analyze_security_with(
                         SubSeq(vulnerability_patterns, 1, FirstMatch(pattern)),
                         pattern, hostPossessive)
        IN /\ analysis.vulnerability_types = first.vulnerability_types
           /\ analysis.security_level = first.security_level

\* C3: the complexity score of a pattern with one more quantifier, alternation or
\* group token appended is never below the score of the pattern itself.
C3_ScoreMonotone ==
    (Returned(baseline) /\ Returned(analysis)) =>
        analysis.complexity_score >= baseline.complexity_score

\* the analysis flags the pattern with the type the caller then passes to fix
FlaggedWith(a, t) ==
    \/ t \in Range(a.vulnerability_types)
    \/ t = "nested_quantifiers" /\ "Nested quantifiers" \in Range(a.vulnerability_types)
    \/ t = "exponential_backtracking"
           /\ "Exponential backtracking" \in Range(a.vulnerability_types)

\* C4: after analyze -> fix -> re-analyze of a pattern flagged with the type given to
\* fix, the severity of the fixed pattern is not above the severity of the pattern.
C4_SeverityNotRaised ==
    (Returned(analysis) /\ Returned(reanalysis) /\ FlaggedWith(analysis, requested_type)) =>
        SeverityRank(reanalysis.security_level) <= SeverityRank(analysis.security_level)

\* a group whose body ends in + or * and that is itself repeated by + or *
RepeatedGroupEndingInRepetition(p) ==
    \E i \in 1..Len(p), k \in 1..(Len(p) - 1) :
        /\ i + 1 < k
        /\ p[i] = "("
        /\ \A m \in (i + 1)..(k - 1) : p[m] # ")"
        /\ p[k - 1] \in {"+", "*"}
        /\ p[k] = ")"
        /\ p[k + 1] \in {"+", "*"}

\* the pattern contains the atomic-group marker (?>
ContainsAtomicGroup(p) ==
    \E i \in 1..(Len(p) - 2) : p[i] = "(" /\ p[i + 1] = "?" /\ p[i + 2] = ">"

\* C5: fix of a pattern with a repeated group whose body ends in a repetition, for
\* the type nested_quantifiers, returns a FixResult whose fixed pattern has an atomic
\* group and no longer matches the nested-quantifier probe.
C5_NestedFixWrapsAtomic ==
    (fix # None /\ requested_type = "nested_quantifiers"
        /\ RepeatedGroupEndingInRepetition(pattern)) =>
        /\ fix # Raised
        /\ ContainsAtomicGroup(fix.fixed_pattern)
        /\ ~NestedQuantifiersProbe(fix.fixed_pattern)

\* C6: fix for the type exponential_backtracking returns a FixResult, in which the
\* offending construct of a pattern that has one is wrapped in an atomic group.
C6_ExponentialFixWrapsAtomic ==
    (fix # None /\ requested_type = "exponential_backtracking") =>
        /\ fix # Raised
        /\ ExponentialBacktrackingProbe(pattern) => ContainsAtomicGroup(fix.fixed_pattern)

KnownFixTypes == {"nested_quantifiers", "exponential_backtracking"}

\* the positions of the plain quantifiers: a + or * that no + follows
PlainQuantifiers(p) ==
    {i \in 1..Len(p) : p[i] \in {"+", "*"} /\ ~(i < Len(p) /\ p[i + 1] = "+")}

\* f is p with one + inserted after each plain quantifier and nothing else changed
IsPossessiveFormOf(f, p) ==
    LET shift(i) == Cardinality({j \in PlainQuantifiers(p) : j < i})
    IN /\ Len(f) = Len(p) + Cardinality(PlainQuantifiers(p))
       /\ \A i \in 1..Len(p) : f[i + shift(i)] = p[i]
       /\ \A i \in PlainQuantifiers(p) : f[i + shift(i) + 1] = "+"

\* C7: fix with a type the rewriter does not know raises nothing: it returns a
\* FixResult for the pattern whose fixed pattern is the pattern with only the
\* possessive pass applied (no group rewritten, no atomic group added).
C7_UnknownTypePossessiveOnly ==
    (fix # None /\ requested_type \notin KnownFixTypes) =>
        /\ fix # Raised
        /\ fix.original_pattern = pattern
        /\ fix.vulnerability_fixed = requested_type
        /\ IsPossessiveFormOf(fix.fixed_pattern, pattern)
        /\ ContainsAtomicGroup(fix.fixed_pattern) = ContainsAtomicGroup(pattern)

C7_Witness ==
    /\ fix # None /\ fix # Raised
    /\ requested_type = "Nested quantifiers"
    /\ pattern = << "(", "a", "+", ")", "+" >>
    /\ fix.fixed_pattern = << "(", "a", "+", "+", ")", "+", "+" >>

AnalysisFields ==
    {"pattern", "security_level", "performance_level", "complexity_score",
     "vulnerability_types", "optimization_suggestions", "estimated_wcu", "compatibility"}

\* the findings are those of the probes on the raw text of p
FindingsFromRawText(a, p) ==
    /\ \A i \in 1..Len(vulnerability_patterns) :
           (vulnerability_patterns[i] \in Range(a.vulnerability_types))
               <=> RuleMatches(vulnerability_patterns[i], p)
    /\ Len(a.vulnerability_types) = Cardinality(Range(a.vulnerability_types))

\* C8: analyze never fails: every call returns an Analysis, and for a pattern that
\* does not compile the Analysis has compatibility false for every engine and the
\* findings of the probes on the raw text.
C8_AnalyzeNeverFails ==
    /\ analysis # None =>
           /\ analysis # Raised
           /\ DOMAIN analysis = AnalysisFields
           /\ analysis.pattern = pattern
           /\ ~Compiles(pattern, hostPossessive) =>
                  /\ \A e \in DOMAIN analysis.compatibility : ~analysis.compatibility[e]
                  /\ FindingsFromRawText(analysis, pattern)
    /\ reanalysis # None =>
           /\ reanalysis # Raised
           /\ ~Compiles(fix.fixed_pattern, hostPossessive) =>
                  /\ \A e \in DOMAIN reanalysis.compatibility : ~reanalysis.compatibility[e]
                  /\ FindingsFromRawText(reanalysis, fix.fixed_pattern)

C8_Witness ==
    /\ Returned(analysis)
    /\ ~Compiles(pattern, hostPossessive)
    /\ analysis.vulnerability_types # <<>>
    /\ \A e \in DOMAIN analysis.compatibility : ~analysis.compatibility[e]

(***************************************************************************)
(* The dialects of the target engines, as far as the patterns of the model *)
(* tell them apart: PCRE and Java know possessive quantifiers and atomic   *)
(* groups, RE2 and JavaScript do not, the host is as it is.                *)
(***************************************************************************)
DialectAccepts(engine, p, possessive) ==
    CASE engine = "python" -> Compiles(p, possessive)
      [] engine \in {"pcre", "java"} -> Compiles(p, TRUE)
      [] engine \in {"re2", "javascript"} -> Compiles(p, FALSE)

\* C9: the compatibility entry of each engine is the result of compiling the pattern
\* under that engine's own syntax: a pattern valid in one dialect only is not
\* reported compatible with another dialect.
C9_PerEngineDialect ==
    Returned(analysis) =>
        \A e \in DOMAIN analysis.compatibility :
            analysis.compatibility[e] = DialectAccepts(e, pattern, hostPossessive)

\* C10: the compatibility map of every Analysis, also that of a pattern that does
\* not compile, has exactly the configured engine identifiers as its keys.
C10_CompatibilityKeys ==
    /\ Returned(analysis) => DOMAIN analysis.compatibility = Range(engines)
    /\ Returned(reanalysis) => DOMAIN reanalysis.compatibility = Range(engines)

C10_Witness ==
    /\ Returned(analysis)
    /\ ~Compiles(pattern, hostPossessive)
    /\ Returned(reanalysis)
    /\ Compiles(pattern, TRUE)
    /\ DOMAIN analysis.compatibility = Range(engines)

WellOptimized == << "Pattern is well optimized" >>

\* C12: the recommendations include the atomic-group advice whenever the nested
\* quantifier risk is found, and they are "Pattern is well optimized" alone only
\* when no signal fired: no vulnerability found, no length and no alternation warning.
C12_RecommendationsBySignal ==
    Returned(analysis) =>
        /\ "Nested quantifiers" \in Range(analysis.vulnerability_types) =>
               "Convert nested quantifiers to atomic groups"
                   \in Range(analysis.optimization_suggestions)
        /\ analysis.optimization_suggestions = WellOptimized =>
               /\ analysis.vulnerability_types = <<>>
               /\ Len(pattern) <= LongPatternLimit
               /\ Count(pattern, "|") <= HighAlternationLimit

\* the number of atomic-group markers (?> in the pattern
CountAtomicGroups(p) ==
    Cardinality({i \in 1..(Len(p) - 2) : p[i] = "(" /\ p[i + 1] = "?" /\ p[i + 2] = ">"})

\* C13: the FixResult lists a transformation exactly when it was carried out: the
\* atomic-group rewrite when a group was wrapped, the possessive conversion when a
\* plain quantifier was made possessive.
C13_AppliedListIsWhatWasApplied ==
    (fix # None /\ fix # Raised) =>
        /\ "atomic_groups" \in Range(fix.optimizations_applied)
               <=> CountAtomicGroups(fix.fixed_pattern) > CountAtomicGroups(pattern)
        /\ "possessive_quantifiers" \in Range(fix.optimizations_applied)
               <=> PlainQuantifiers(pattern) # {}

\* the complexity class of an Analysis, "absent" when the record has no such field
ComplexityClassOf(a) ==
    IF "complexity" \in DOMAIN a THEN a.complexity
    ELSE IF "complexity_class" \in DOMAIN a THEN a.complexity_class
    ELSE "absent"

\* C14: a pattern with nested quantifiers, such as (a+)+, is analysed as vulnerable,
\* with the nested-quantifier type and the complexity class EXPONENTIAL.
C14_NestedIsExponential ==
    (Returned(analysis) /\ RepeatedGroupEndingInRepetition(pattern)) =>
        /\ analysis.security_level # "LOW"
        /\ "Nested quantifiers" \in Range(analysis.vulnerability_types)
        /\ ComplexityClassOf(analysis) = "EXPONENTIAL"

\* a nested quantifier followed by further text
NestedThenText(p) ==
    \E k \in 1..(Len(p) - 1) : RepeatedGroupEndingInRepetition(SubSeq(p, 1, k))

\* C15: a pattern that has a nested quantifier followed by further text, such as
\* (a+)+b, is analysed with security level CRITICAL and has "Nested quantifiers"
\* among its vulnerability types.
C15_NestedThenTextIsCritical ==
    (Returned(analysis) /\ NestedThenText(pattern)) =>
        /\ analysis.security_level = "CRITICAL"
        /\ "Nested quantifiers" \in Range(analysis.vulnerability_types)

\* the characters that make a pattern more than a literal
NonLiteralChars == {"(", "+", "*", "?", "|", "\\", "{"}

LiteralOnly(p) == Range(p) \cap NonLiteralChars = {}

\* C16: a pattern of literal characters only, such as "simple", is analysed as not
\* vulnerable, with complexity class LINEAR and performance tier EXCELLENT,
\* whatever its length.
C16_LiteralIsLinearExcellent ==
    (Returned(analysis) /\ LiteralOnly(pattern)) =>
        /\ analysis.security_level = "LOW"
        /\ analysis.vulnerability_types = <<>>
        /\ analysis.performance_level = "EXCELLENT"
        /\ ComplexityClassOf(analysis) = "LINEAR"


\* what the call in the frame returns when it runs alone
RunsAlone(f) ==
    IF f.vulnerability_type = "" THEN analyze_pattern(f.pattern, hostPossessive)
    ELSE generate_fix(f.pattern, f.vulnerability_type, hostPossessive)

\* C11: two calls of analyze on the same pattern, with any other analyze or fix
\* calls in between, return identical Analysis records: all the records analyze has
\* returned for a pattern are one and the same.
C11_AnalyzeDeterministic ==
    \A p \in CallPatterns : Cardinality(returned[p]) <= 1

\* a second call of analyze on a pattern is about to return, after a fix call ran
C11_Witness ==
    \E t \in Threads, u \in Threads :
        /\ thread[t].pc = "return"
        /\ thread[t].vulnerability_type = ""
        /\ returned[thread[t].pattern] = {thread[t].result}
        /\ thread[u].pc = "possessive"

\* C19: under every interleaving of the threads each call of analyze and fix returns
\* what it returns when it runs alone, and the shared analyzer is as __init__ left it.
C19_ThreadSafe ==
    /\ analyzer = [vulnerability_patterns |-> vulnerability_patterns]
    /\ \A t \in Threads :
           thread[t].pc = "return" => thread[t].result = RunsAlone(thread[t])

\* an analyze call and a fix call both about to return, after they ran interleaved
C19_Witness ==
    \E t \in Threads, u \in Threads :
        /\ thread[t].pc = "return" /\ thread[t].vulnerability_type = ""
        /\ Returned(thread[t].result)
        /\ thread[u].pc = "return" /\ thread[u].vulnerability_type # ""
        /\ Returned(thread[u].result)

\* C17: benchmark with an empty sequence of test strings signals an explicit
\* input error: it ends in StatisticsError (or in re.error when the pattern does not
\* compile), never in a division by zero and never in a result.
C17_EmptySamplesSignalled ==
    (benchmark # None /\ test_strings = <<>>) =>
        /\ "error" \in DOMAIN benchmark
        /\ benchmark.error \in {"StatisticsError", "re.error"}
        /\ Compiles(pattern, hostPossessive) => benchmark = StatisticsError

C17_Witness ==
    /\ pattern = << "(", "a", "+", ")", "+" >>
    /\ test_strings = <<>>
    /\ benchmark = StatisticsError

\* C18: in a batch the failure of the analysis of one pattern neither changes nor
\* suppresses the result of any other pattern: the response carries, for every item
\* whose analysis did not fail, the result of that item.
C18_FailuresIsolatedPerItem ==
    (response # None /\ response.status_code # 429) =>
        \A i \in 1..Len(request) :
            i \notin failing =>
                /\ "results" \in DOMAIN response
                /\ \E j \in DOMAIN response.results :
                       response.results[j] =
                           ResultEntry(analyze_pattern(request[i], hostPossessive))

\* EXCELLENT > GOOD > FAIR > POOR
TierRank(level) ==
    CASE level = "EXCELLENT" -> 3 [] level = "GOOD" -> 2 [] level = "FAIR" -> 1
      [] level = "POOR" -> 0

\* C20: of any two patterns, the one with the higher complexity score never has the
\* better performance tier.
C20_TierNonIncreasing ==
    (Returned(baseline) /\ Returned(analysis)
        /\ analysis.complexity_score > baseline.complexity_score) =>
        TierRank(analysis.performance_level) <= TierRank(baseline.performance_level)

C20_Witness ==
    /\ Returned(baseline) /\ Returned(analysis)
    /\ baseline.complexity_score < analysis.complexity_score
    /\ baseline.performance_level = "FAIR"
    /\ analysis.performance_level = "POOR"

\* C22: the complexity score of every Analysis is an integer >= 0: the group count,
\* occurrences of "(" minus occurrences of "(?", never makes it negative.
C22_ScoreNonNegative ==
    /\ Returned(analysis) =>
           /\ analysis.complexity_score \in Nat
           /\ Count(pattern, "(") - CountOpenQ(pattern) >= 0
    /\ Returned(reanalysis) => reanalysis.complexity_score \in Nat

\* an analysed pattern whose every group opening is a "(?"
C22_Witness ==
    /\ Returned(analysis)
    /\ CountOpenQ(pattern) > 0
    /\ Count(pattern, "(") = CountOpenQ(pattern)
    /\ analysis.complexity_score = QuantifierWeight

\* position i of p is escaped: an odd number of backslashes stands right before it
Escaped(p, i) ==
    LET run == CHOOSE n \in 0..(i - 1) :
                   /\ \A j \in (i - n)..(i - 1) : p[j] = "\\"
                   /\ (i - n - 1 >= 1 => p[i - n - 1] # "\\")
    IN run % 2 = 1

\* the plain quantifiers of p: an unescaped + or * that no + follows and that is not
\* itself the + of a possessive quantifier
RemainingPlainQuantifiers(p) ==
    {i \in 1..Len(p) :
        /\ p[i] \in {"+", "*"}
        /\ ~Escaped(p, i)
        /\ ~(i < Len(p) /\ p[i + 1] = "+")
        /\ ~(p[i] = "+" /\ i > 1 /\ p[i - 1] \in {"+", "*"} /\ ~Escaped(p, i - 1))}

\* f is p with one + inserted after each of the given positions, nothing else changed
InsertsPlusAfter(f, p, positions) ==
    LET shift(i) == Cardinality({j \in positions : j < i})
    IN /\ Len(f) = Len(p) + Cardinality(positions)
       /\ \A i \in 1..Len(p) : f[i + shift(i)] = p[i]
       /\ \A i \in positions : f[i + shift(i) + 1] = "+"

\* C24: the final pass of fix makes every remaining plain + or * quantifier
\* possessive and changes nothing else: an escaped literal \+ or \* stays as it is.
C24_PossessivePassOnlyQuantifiers ==
    (fix # None /\ fix # Raised /\ requested_type \notin KnownFixTypes) =>
        InsertsPlusAfter(fix.fixed_pattern, pattern, RemainingPlainQuantifiers(pattern))

\* a group followed by a counted repetition with no upper bound: ( ... ){n,}
OpenEndedGroupRepetition(p) ==
    \E i \in 1..Len(p), k \in 1..Len(p), m \in 1..(Len(p) - 1) :
        /\ i < k /\ k + 2 < m
        /\ p[i] = "("
        /\ \A x \in (i + 1)..(k - 1) : p[x] # ")"
        /\ p[k] = ")"
        /\ p[k + 1] = "{"
        /\ \A x \in (k + 2)..(m - 1) : p[x] \in DIGITS
        /\ p[m] = "," /\ p[m + 1] = "}"

\* C25: every pattern that has a group followed by a counted repetition with no upper
\* bound, such as (a){2,}, with or without a trailing quantifier, is reported with
\* the exponential vulnerability.
C25_OpenEndedRepetitionFlagged ==
    (Returned(analysis) /\ OpenEndedGroupRepetition(pattern)) =>
        "Exponential backtracking" \in Range(analysis.vulnerability_types)

(***************************************************************************)
(* The cost estimator on its own: _estimate_wcu over every score the       *)
(* analyzer can produce and every pattern length up to MaxRep * MaxRep,    *)
(* and what it returns when the score or the length is then raised.        *)
(***************************************************************************)

\* the largest complexity score: every term of _analyze_performance at its cap
ScoreCap == LengthCap + QuantifierCap + AlternationCap + GroupCap

\* one call of _estimate_wcu(pattern, complexity_score), a pattern of the given length
Estimated(score, length) ==
    [complexity_score |-> score, length |-> length,
     estimated_wcu |-> _estimate_wcu(Rep("w", length), score)]

InitWcu ==
    /\ hostPossessive \in BOOLEAN
    /\ ProtocolIdle
    /\ CallsIdle
    /\ HarnessIdle
    /\ estimate \in {Estimated(score, length) :
                        score \in 0..ScoreCap, length \in 0..(MaxRep * MaxRep)}
    /\ earlier = None
    /\ refix = None
    /\ auth_manager = [users |-> [u \in {AdminId} |-> DefaultAdmin], tokens |-> EmptyDict]
    /\ rate_limiter = [requests |-> EmptyDict]
    /\ hourly_limit = 0
    /\ now = 0
    /\ call = None
    /\ accepted = EmptyDict

\* _estimate_wcu for the same pattern length and a complexity score one higher
GrowScore ==
    /\ estimate.complexity_score < ScoreCap
    /\ earlier' = estimate
    /\ estimate' = Estimated(estimate.complexity_score + 1, estimate.length)
    /\ UNCHANGED <<hostPossessive, protocol, calls, harness>>
    /\ UNCHANGED <<refix, auth_manager, rate_limiter, hourly_limit, now, call, accepted>>

\* _estimate_wcu for the same complexity score and a pattern one character longer
GrowLength ==
    /\ estimate.length < MaxRep * MaxRep
    /\ earlier' = estimate
    /\ estimate' = Estimated(estimate.complexity_score, estimate.length + 1)
    /\ UNCHANGED <<hostPossessive, protocol, calls, harness>>
    /\ UNCHANGED <<refix, auth_manager, rate_limiter, hourly_limit, now, call, accepted>>

NextWcu ==
    \/ GrowScore
    \/ GrowLength

SpecWcu == InitWcu /\ [][NextWcu]_vars

\* the base unit of _estimate_wcu, in hundredths of a WCU
BaseUnit == 100

\* C21: the estimated cost is base_unit * (1 + score/100) * (1 + length/1000) rounded
\* to two decimals with base unit 1.0; it is never below the base unit, and it never
\* decreases when the score or the length grows.  Costs are in hundredths here, so
\* the exact product in the same unit is (100 + score) * (1000 + length) / 1000.
C21_CostFormulaMonotone ==
    LET exact1000 == (100 + estimate.complexity_score) * (1000 + estimate.length)
        wcu1000 == estimate.estimated_wcu * 1000
    IN /\ wcu1000 - exact1000 <= 500
       /\ exact1000 - wcu1000 <= 500
       /\ estimate.estimated_wcu >= BaseUnit
       /\ earlier # None => estimate.estimated_wcu >= earlier.estimated_wcu

\* the length was raised from 4 to 5, onto the tie 1.005, which round() takes down
C21_Witness ==
    /\ earlier # None
    /\ earlier.complexity_score = 0 /\ earlier.length = 4
    /\ earlier.estimated_wcu = BaseUnit
    /\ estimate.length = 5
    /\ estimate.estimated_wcu = BaseUnit

(***************************************************************************)
(* generate_fix applied to its own output: the caller that fixed a pattern *)
(* submits the fixed pattern again with the same vulnerability type.       *)
(***************************************************************************)

\* enhanced_fixer.generate_fix(fixed_pattern, t), t the type of the first call
FixAgain ==
    /\ fix # None
    /\ fix # Raised
    /\ refix = None
    /\ refix' = generate_fix(fix.fixed_pattern, requested_type, hostPossessive)
    /\ UNCHANGED <<hostPossessive, protocol, calls, harness>>
    /\ UNCHANGED <<estimate, earlier, auth_manager, rate_limiter, hourly_limit, now, call,
                   accepted>>

NextFixLoop ==
    \/ Analyze
    \/ \E t \in FixTypes : Fix(t)
    \/ FixAgain

SpecFixLoop == Init /\ [][NextFixLoop]_vars

\* C27: fix is idempotent on its own output: fixing the fixed pattern again with the
\* same vulnerability type returns that fixed pattern unchanged.
C27_FixIdempotent ==
    refix # None =>
        /\ refix # Raised
        /\ refix.fixed_pattern = fix.fixed_pattern

(***************************************************************************)
(* The auth manager: create_user and generate_api_token on the global      *)
(* EnterpriseAuthManager, with datetime.now() advancing between calls.     *)
(* An instant is a tick; one hour is Hour ticks.                           *)
(***************************************************************************)

MaxTime == 3
MaxUsers == 1
MaxTokens == 1

\* timedelta(hours=1) and timedelta(days=30), in ticks
Hour == 2

TokenLifetime == 30 * 24 * Hour

UserRole == {"VIEWER", "EDITOR", "ADMIN", "SUPER_ADMIN"}

UserRoleValue(role) ==
    CASE role = "VIEWER" -> "viewer" [] role = "EDITOR" -> "editor"
      [] role = "ADMIN" -> "admin" [] role = "SUPER_ADMIN" -> "super_admin"

\* hashlib.sha256(f"{email}{datetime.now()}").hexdigest()[:16]: the same id for the
\* same email at the same instant, a different one otherwise
Digest(email, t) == [id |-> <<"sha256", email, t>>]

\* d[k] = v on a dict
Put(d, k, v) == [x \in DOMAIN d \cup {k} |-> IF x = k THEN v ELSE d[x]]

\* create_user(email, role) at instant t: the manager after the call and the result
create_user(manager, email, role, t) ==
    LET user_id == Digest(email, t)
        api_limits ==
            [scans_per_hour |-> IF role = "VIEWER" THEN 100 ELSE 500,
             optimizations_per_day |-> IF role = "VIEWER" THEN 50 ELSE 200]
        user == [user_id |-> user_id, email |-> email, role |-> role,
                 api_limits |-> api_limits, is_active |-> TRUE]
    IN [manager |-> [manager EXCEPT !.users = Put(@, user_id, user)],
        result |-> user]

\* jwt.encode(payload, self.secret_key, algorithm="HS256"): one token per payload
jwt_encode(payload) == [jwt |-> payload]

HTTPException(status_code, detail) ==
    [error |-> "HTTPException", status_code |-> status_code, detail |-> detail]

\* the scopes argument: omitted (None) or a list
Scopes(list) == [omitted |-> FALSE, list |-> list]

NoScopes == [omitted |-> TRUE, list |-> <<>>]

\* scopes or default
ScopesOr(scopes, default) ==
    IF scopes.omitted \/ scopes.list = <<>> THEN default ELSE scopes.list

\* generate_api_token(user_id, scopes) at instant t: the manager after the call and
\* the result (a variant without the membership test first)
generate_api_token_Unchecked(manager, user_id, scopes, t) ==
    IF user_id \notin DOMAIN manager.users
    THEN [manager |-> manager, result |-> [error |-> "KeyError"]]
    ELSE LET user == manager.users[user_id]
             expires_at == t + TokenLifetime
             token == jwt_encode([user_id |-> user_id, email |-> user.email,
                                  role |-> UserRoleValue(user.role),
                                  scopes |-> ScopesOr(scopes, <<"read", "write">>),
                                  exp |-> expires_at])
             api_token == [token |-> token, user_id |-> user_id,
                           expires_at |-> expires_at, scopes |-> ScopesOr(scopes, <<>>)]
         IN [manager |-> [manager EXCEPT !.tokens = Put(@, token, api_token)],
             result |-> api_token]

generate_api_token(manager, user_id, scopes, t) ==
    IF user_id \notin DOMAIN manager.users
    THEN [manager |-> manager, result |-> HTTPException(404, "User not found")]
    ELSE LET user == manager.users[user_id]
             expires_at == t + TokenLifetime
             payload == [user_id |-> user_id, email |-> user.email,
                         role |-> UserRoleValue(user.role),
                         scopes |-> ScopesOr(scopes, <<"read", "write">>),
                         exp |-> expires_at]
             token == jwt_encode(payload)
             api_token == [token |-> token, user_id |-> user_id,
                           expires_at |-> expires_at, scopes |-> ScopesOr(scopes, <<>>)]
         IN [manager |-> [manager EXCEPT !.tokens = Put(@, token, api_token)],
             result |-> api_token]

\* the inputs of the calls
Emails == {"ann@company.com"}

\* the roles create_user is called with: the default and one other
CreatedRoles == {role \in UserRole : role \in {"VIEWER", "EDITOR"}}

\* a user_id that no user has
UnknownId == [id |-> <<"nobody">>]

ScopeArguments == {NoScopes, Scopes(<<"read">>)}

InitAuth ==
    /\ hostPossessive = FALSE
    /\ ProtocolIdle
    /\ CallsIdle
    /\ HarnessIdle
    /\ PlatformIdle

\* auth_manager.create_user(email, role), while the manager holds at most MaxUsers
\* created users
CreateUser(email, role) ==
    /\ LET done == create_user(auth_manager, email, role, now)
       IN /\ Cardinality(DOMAIN done.manager.users \ {AdminId}) <= MaxUsers
          /\ auth_manager' = done.manager
          /\ call' = [op |-> "create_user", before |-> auth_manager, at |-> now,
                      result |-> done.result]
    /\ UNCHANGED <<hostPossessive, protocol, calls, harness>>
    /\ UNCHANGED <<estimate, earlier, refix, rate_limiter, hourly_limit, now, accepted>>

\* auth_manager.generate_api_token(user_id, scopes), while the manager holds at most
\* MaxTokens tokens
GenerateApiToken(user_id, scopes) ==
    /\ LET done == generate_api_token(auth_manager, user_id, scopes, now)
       IN /\ Cardinality(DOMAIN done.manager.tokens) <= MaxTokens
          /\ auth_manager' = done.manager
          /\ call' = [op |-> "generate_api_token", before |-> auth_manager, at |-> now,
                      user_id |-> user_id, result |-> done.result]
    /\ UNCHANGED <<hostPossessive, protocol, calls, harness>>
    /\ UNCHANGED <<estimate, earlier, refix, rate_limiter, hourly_limit, now, accepted>>

\* the clock advances between two calls
Tick ==
    /\ now < MaxTime
    /\ now' = now + 1
    /\ UNCHANGED <<hostPossessive, protocol, calls, harness>>
    /\ UNCHANGED <<estimate, earlier, refix, auth_manager, rate_limiter, hourly_limit, call,
                   accepted>>

NextAuth ==
    \/ \E email \in Emails, role \in CreatedRoles : CreateUser(email, role)
    \/ \E user_id \in DOMAIN auth_manager.users \cup {UnknownId}, scopes \in ScopeArguments :
           GenerateApiToken(user_id, scopes)
    \/ Tick

SpecAuth == InitAuth /\ [][NextAuth]_vars

\* the latest call was generate_api_token
TokenRequested == call # None /\ call.op = "generate_api_token"

MaxLimit == 2

\* key = f"{user_id}:{endpoint}"
RateKey(user_id, endpoint) == <<user_id, ":", endpoint>>

\* self.requests[key], [] when the key is new
RequestsOf(requests, key) == IF key \in DOMAIN requests THEN requests[key] ELSE <<>>

\* the request times less than one hour old at instant t
Recent(times, t) == SelectSeq(times, LAMBDA req_time : t - req_time < Hour)

\* is_rate_limited(user_id, endpoint, limits) at instant t, limit the scans_per_hour
\* entry of limits: the limiter after the call and the result (a variant that records
\* every call first)
is_rate_limited_RecordsRejected(limiter, user_id, endpoint, limit, t) ==
    LET key == RateKey(user_id, endpoint)
        kept == Recent(RequestsOf(limiter.requests, key), t)
    IN [limiter |-> [limiter EXCEPT !.requests = Put(@, key, Append(kept, t))],
        result |-> Len(kept) >= limit]

is_rate_limited(limiter, user_id, endpoint, limit, t) ==
    LET key == RateKey(user_id, endpoint)
        kept == Recent(RequestsOf(limiter.requests, key), t)
    IN IF Len(kept) >= limit
       THEN [limiter |-> [limiter EXCEPT !.requests = Put(@, key, kept)],
             result |-> TRUE]
       ELSE [limiter |-> [limiter EXCEPT !.requests = Put(@, key, Append(kept, t))],
             result |-> FALSE]

\* the callers: two users of the analyze endpoint (main.py line 118)
Callers == {<<"admin_001", "analyze">>, <<"viewer_01", "analyze">>}

InitRate ==
    /\ hostPossessive = FALSE
    /\ ProtocolIdle
    /\ CallsIdle
    /\ HarnessIdle
    /\ estimate = None
    /\ earlier = None
    /\ refix = None
    /\ auth_manager = [users |-> [u \in {AdminId} |-> DefaultAdmin], tokens |-> EmptyDict]
    /\ rate_limiter = [requests |-> EmptyDict]
    /\ hourly_limit \in 0..MaxLimit
    /\ now = 0
    /\ call = None
    /\ accepted = EmptyDict

\* rate_limiter.is_rate_limited(user_id, endpoint, limits); accepted keeps the times
\* of the calls that returned False
IsRateLimited(user_id, endpoint) ==
    /\ LET key == RateKey(user_id, endpoint)
           done == is_rate_limited(rate_limiter, user_id, endpoint, hourly_limit, now)
       IN /\ rate_limiter' = done.limiter
          /\ call' = [op |-> "is_rate_limited", key |-> key, at |-> now,
                      before |-> rate_limiter, accepted_before |-> accepted,
                      result |-> done.result]
          /\ accepted' = IF done.result
                         THEN accepted
                         ELSE Put(accepted, key, Append(RequestsOf(accepted, key), now))
    /\ UNCHANGED <<hostPossessive, protocol, calls, harness>>
    /\ UNCHANGED <<estimate, earlier, refix, auth_manager, hourly_limit, now>>

NextRate ==
    \/ \E caller \in Callers : IsRateLimited(caller[1], caller[2])
    \/ Tick

SpecRate == InitRate /\ [][NextRate]_vars

\* the latest call was is_rate_limited
RateChecked == call # None /\ call.op = "is_rate_limited"

\* how many of the given times are less than one hour before instant t
RecentCount(times, t) == Cardinality({i \in DOMAIN times : t - times[i] < Hour})

\* C26: for a fixed user, endpoint and hourly limit L, with call times that never
\* decrease, is_rate_limited accepts at most L calls within any window shorter than
\* one hour; it returns True exactly when L accepted requests of that key are less
\* than one hour old; a rejected call is not recorded; calls for other keys never
\* change the outcome.
C26_SlidingWindowLimit ==
    /\ \A key \in DOMAIN accepted :
           \A i, j \in DOMAIN accepted[key] :
               j = i + hourly_limit => accepted[key][j] - accepted[key][i] >= Hour
    /\ RateChecked =>
           LET mine == RequestsOf(call.accepted_before, call.key)
               held == RequestsOf(call.before.requests, call.key)
           IN /\ call.result = (RecentCount(mine, call.at) = hourly_limit)
              /\ call.result => rate_limiter.requests[call.key] = Recent(held, call.at)
              /\ \A key \in (DOMAIN rate_limiter.requests \cup DOMAIN call.before.requests)
                             \ {call.key} :
                     /\ key \in DOMAIN call.before.requests
                     /\ key \in DOMAIN rate_limiter.requests
                     /\ rate_limiter.requests[key] = call.before.requests[key]

\* a call turned down at a positive limit after an earlier window of that key has
\* expired and filled again, with another key in use
C26_Witness ==
    /\ RateChecked
    /\ call.result
    /\ hourly_limit > 0
    /\ Len(RequestsOf(accepted, call.key)) > hourly_limit
    /\ \E key \in DOMAIN rate_limiter.requests :
           key # call.key /\ rate_limiter.requests[key] # <<>>

====
